---- MODULE Spec2Model ----
(***************************************************************************)
(* The query orchestration pipeline of the legal-assistance client:        *)
(* AIPanel (main conversation, one cancelable analysis request, report     *)
(* handoff through sessionStorage) and ImageUpload (attachment staging).   *)
(*                                                                         *)
(* Texts are sequences of tokens; SP is the blank token.  An optional      *)
(* value (null / undefined in the source) is a sequence of length 0 or 1.  *)
(* The part of handleSend before its await is one action; the part after   *)
(* the await (try body, catch, finally) runs when the transport delivers   *)
(* the outcome of the call: a response, an error, or the rejection of an   *)
(* aborted call.  These deliveries are callbacks of the transport and are  *)
(* interleaved with the user's events.                                     *)
(***************************************************************************)
EXTENDS Integers, Sequences, FiniteSets, TLC

VARIABLES
    query,            \* AIPanel.query: the textarea's text
    messages,         \* AIPanel.messages: the conversation
    loading,          \* AIPanel.loading: the in-flight flag
    selectedImage,    \* AIPanel.selectedImage: the staged file
    abortController,  \* AIPanel.abortController: the held cancel token
    reqs,             \* the api.post calls issued so far; token i belongs to call i;
                      \* report_id is the one the server answered the call with
    slot,             \* sessionStorage["jonglaw_last_report"]
    preview,          \* ImageUpload.preview
    fileType,         \* ImageUpload.fileType
    readers,          \* FileReaders whose onloadend has not run yet
    origin,           \* history: for every turn, the call and the code path that appended it
    opened,           \* the number of window.open("/report") calls so far
    lastCall,         \* history: the orchestrator handler the last step invoked, if any
    views,            \* the ReportPage instances, in the order their windows were created
    handoffs,         \* history: the objects the writers handed to JSON.stringify, in order
    text,             \* the string given to cleanContent / parseReport
    cleanings,        \* the results of successive cleanContent passes over text
    parses,           \* the results of parseReport(text) and of re-parsing its overview
    chat,             \* the state of the two follow-up components of a viewing surface
    fuReportId,       \* the reportId prop of the follow-up components
    lastPick,         \* history: the file of the last selection handleFileChange accepted
                      \* since the attachment was last cleared
    progress,         \* AIPanel.progress, in hundredths of a percent
    loadingStage,     \* AIPanel.loadingStage
    timer,            \* the interval of the progress effect is running
    alive,            \* the AIPanel is mounted
    reports,          \* HistorySidebar.reports: the ids of the displayed reports, in order
    deletes,          \* the deleteReport calls past their confirm, with the reports value
                      \* their closure holds
    server,           \* the ids of the reports the server stores
    fetch,            \* the GET /history call of the mount effect and the list it carries
    citation,         \* the element of sources the map callback of the report view is given
    isLaw             \* the truth value of isLaw the callback computed for it, if it ran

reportVars == <<views, handoffs>>
extractorVars == <<text, cleanings, parses>>
followVars == <<chat, fuReportId>>
pickVars == <<lastPick>>
progressVars == <<progress, loadingStage, timer, alive>>
historyVars == <<reports, deletes, server, fetch>>
citationVars == <<citation, isLaw>>

vars == <<query, messages, loading, selectedImage, abortController, reqs, slot,
          preview, fileType, readers, origin, opened, lastCall,
          views, handoffs, text, cleanings, parses, chat, fuReportId,
          lastPick, progress, loadingStage, timer, alive, reports, deletes, server,
          fetch, citation, isLaw>>

\* the history list before its component is mounted: no call made
NoFetch == [status |-> "none", data |-> <<>>]

----------------------------------------------------------------------------
\* Bounds of the model

\* the user submits only while the conversation has fewer turns than this; every
\* call appends a user turn, so at most MaxTurns calls are issued
MaxTurns == 4

\* the report windows of a behaviour of the handoff store: once that many exist the
\* user neither submits, reopens nor visits, and no further answer is delivered
MaxViews == 2

\* the blocks (a label with or without a body, or unlabelled text) of an answer
MaxBlocks == 4

\* the length of the strings given to cleanContent on its own
MaxLen == 5

\* the turns of one follow-up list beyond which its user submits nothing more
MaxFollowTurns == 4

\* the longest source string of a citation, in characters
MaxSourceLen == 3
MaxDeletes == 2

----------------------------------------------------------------------------
\* Values

None == <<>>
Some(x) == <<x>>

Last(q) == q[Len(q)]

SP == " "

\* the texts the user types: nothing, and a question with a trailing blank
Queries == {<<>>, <<"q", SP>>}

\* String.prototype.trim
RECURSIVE TrimLeft(_)
TrimLeft(t) == IF t # <<>> /\ Head(t) = SP THEN TrimLeft(Tail(t)) ELSE t

RECURSIVE TrimRight(_)
TrimRight(t) ==
    IF t # <<>> /\ t[Len(t)] = SP THEN TrimRight(SubSeq(t, 1, Len(t) - 1)) ELSE t

Trim(t) == TrimRight(TrimLeft(t))

\* Number.prototype.toString for a natural number, one token per digit
DigitChar(d) == <<"0", "1", "2", "3", "4", "5", "6", "7", "8", "9">>[d + 1]

RECURSIVE NumToString(_)
NumToString(n) ==
    IF n < 10 THEN <<DigitChar(n)>>
    ELSE NumToString(n \div 10) \o <<DigitChar(n % 10)>>

\* String.prototype.slice(-k)
SliceLast(t, k) == IF Len(t) <= k THEN t ELSE SubSeq(t, Len(t) - k + 1, Len(t))

\* the files the user can pick: [name, type], name and type as token sequences
PngFile == [name |-> <<"scan", ".png">>, type |-> <<"image/", "png">>]
PdfFile == [name |-> <<"lease", ".pdf">>, type |-> <<"application/pdf">>]
TxtFile == [name |-> <<"notes", ".txt">>, type |-> <<"text/", "plain">>]
Files == {PngFile, PdfFile, TxtFile}

\* what the server can answer to POST /query
\* (report_id is optional; only a REPORT answer carries one)
ReportIds == {None, Some(0), Some(7)}
TextResponses ==
    { [answer |-> <<"report text">>, sources |-> Some(<<"src">>),
       intent |-> Some("REPORT"), engine |-> Some("eng"), chat_history |-> None,
       report_id |-> id] : id \in ReportIds }
    \cup
    { [answer |-> <<"chat text">>, sources |-> Some(<<"src">>),
       intent |-> Some("GENERAL"), engine |-> Some("eng"), chat_history |-> None,
       report_id |-> None] }

\* what the server can answer to POST /analyze-image
VisionResponses == { [risk_level |-> "high", overall_opinion |-> <<"opinion">>] }

\* the error api.post rejects with when its signal is aborted
CanceledError == [detailType |-> "undefined", detail |-> <<>>, message |-> <<"canceled">>]

\* the errors api.post can reject with, other than CanceledError
Errors ==
    { [detailType |-> "string", detail |-> <<"detail">>, message |-> <<"status 500">>],
      [detailType |-> "undefined", detail |-> <<>>, message |-> <<>>] }

\* new Date().getTime() at a handoff
Times == {1234567}

----------------------------------------------------------------------------
\* Conversation turns

UserTurn(q) ==
    [role |-> "user", content |-> q, sources |-> None, intent |-> None,
     engine |-> None, visionData |-> None]

CancelContent == <<"request canceled">>

CancelTurn ==
    [role |-> "assistant", content |-> CancelContent, sources |-> None,
     intent |-> None, engine |-> None, visionData |-> None]

AnswerTurn(res) ==
    [role |-> "assistant", content |-> res.answer, sources |-> res.sources,
     intent |-> res.intent, engine |-> res.engine, visionData |-> None]

VisionContent == <<"image analysis result">>

VisionTurn(data) ==
    [role |-> "assistant", content |-> VisionContent, sources |-> None,
     intent |-> Some("VISION_ANALYSIS"), engine |-> Some("gemini-2.0-flash-lite"),
     visionData |-> Some(data)]

GenericError == <<"communication failure">>

ErrorMessage(err) ==
    IF err.detailType = "string" THEN err.detail
    ELSE IF err.message # <<>> THEN err.message ELSE GenericError

ErrorPrefix == <<"sorry, an error occurred: ">>

\* (mutant) an error turn attributed to the user
ErrorTurnAsUser(err) ==
    [role |-> "user", content |-> ErrorMessage(err), sources |-> None,
     intent |-> None, engine |-> None, visionData |-> None]

ErrorTurn(err) ==
    [role |-> "assistant", content |-> ErrorPrefix \o ErrorMessage(err),
     sources |-> None, intent |-> None, engine |-> None, visionData |-> None]

----------------------------------------------------------------------------
\* Report handoff

FallbackId(t) == <<"JL-">> \o SliceLast(NumToString(t), 6)

\* realId ? realId.toString() : `JL-...`
ReportIdOf(realId, t) ==
    IF realId # None /\ realId[1] # 0 THEN NumToString(realId[1]) ELSE FallbackId(t)

\* the object openReportWindow serializes into the slot
Payload(q, a, s, e, ch, realId, t) ==
    [reportId |-> ReportIdOf(realId, t), query |-> q, answer |-> a, sources |-> s,
     engine |-> e, chat_history |-> IF ch = None THEN Some(<<>>) ELSE ch]

\* (mutant) a serialization that keeps the identifier and the answer only
StringifyIdAndAnswer(o) ==
    [kind |-> "object", members |-> [k \in {"reportId", "answer"} |-> o[k]]]

\* JSON.stringify of an object: a member per property, a property whose value is
\* undefined is left out (sources and engine are the properties that can be)
Stringify(o) ==
    [kind |-> "object",
     members |->
        IF o.sources = None /\ o.engine = None
        THEN [reportId |-> o.reportId, query |-> o.query, answer |-> o.answer,
              chat_history |-> o.chat_history]
        ELSE IF o.sources = None
        THEN [reportId |-> o.reportId, query |-> o.query, answer |-> o.answer,
              engine |-> o.engine, chat_history |-> o.chat_history]
        ELSE IF o.engine = None
        THEN [reportId |-> o.reportId, query |-> o.query, answer |-> o.answer,
              sources |-> o.sources, chat_history |-> o.chat_history]
        ELSE o]

\* the ReportPage of a window that was just created: useState(null), useState(null)
NewView == [mounted |-> FALSE, reportData |-> None, error |-> None]

\* openReportWindow: sessionStorage.setItem(...), window.open("/report", "_blank")
OpenReportWindow(q, a, s, e, ch, realId, t) ==
    /\ slot' = Some(Stringify(Payload(q, a, s, e, ch, realId, t)))
    /\ opened' = opened + 1
    /\ views' = Append(views, NewView)
    /\ handoffs' = Append(handoffs, Payload(q, a, s, e, ch, realId, t))

----------------------------------------------------------------------------
\* History records

From(req, kind) == [req |-> req, kind |-> kind]

----------------------------------------------------------------------------
Init ==
    /\ query = <<>>
    /\ messages = <<>>
    /\ loading = FALSE
    /\ selectedImage = None
    /\ abortController = None
    /\ reqs = <<>>
    /\ slot = None
    /\ preview = None
    /\ fileType = None
    /\ readers = {}
    /\ origin = <<>>
    /\ opened = 0
    /\ lastCall = "none"
    /\ views = <<>>
    /\ handoffs = <<>>
    /\ text = <<>>
    /\ cleanings = <<>>
    /\ parses = <<>>
    /\ chat = <<>>
    /\ fuReportId = None
    /\ lastPick = None
    /\ progress = 0
    /\ loadingStage = ""
    /\ timer = FALSE
    /\ alive = TRUE
    /\ reports = <<>>
    /\ deletes = <<>>
    /\ server = {}
    /\ fetch = NoFetch
    /\ citation = [source |-> None]
    /\ isLaw = None

\* the labels of the four stages, and the bounds of their bands and of the steps of
\* the progress effect (progress is counted in hundredths of a percent)
StageAnalysis == "analysing the case"
StageSearch == "searching statutes and precedents"
StageGeneration == "generating the answer"
StageReview == "final review"

\* the stage the interval callback sets for the value next
StageOf(next) ==
    IF next < 3000 THEN StageAnalysis
    ELSE IF next < 6000 THEN StageSearch
    ELSE IF next < 8500 THEN StageGeneration
    ELSE StageReview

\* (mutant) an effect whose cleanup leaves the interval running
ProgressEffectKeepsTimer ==
    IF loading' = loading
    THEN UNCHANGED <<progress, loadingStage, timer>>
    ELSE IF loading'
         THEN progress' = 0 /\ loadingStage' = StageAnalysis /\ timer' = TRUE
         ELSE progress' = 0 /\ loadingStage' = "" /\ UNCHANGED timer

\* useEffect(..., [loading]): it runs with the render that follows a change of loading;
\* the cleanup of the run before it clears the interval
ProgressEffect ==
    IF loading' = loading
    THEN UNCHANGED <<progress, loadingStage, timer>>
    ELSE IF loading'
         THEN progress' = 0 /\ loadingStage' = StageAnalysis /\ timer' = TRUE
         ELSE progress' = 0 /\ loadingStage' = "" /\ timer' = FALSE

\* textarea onChange
SetQuery(t) ==
    /\ query' = t
    /\ lastCall' = "none"
    /\ UNCHANGED <<opened, messages, loading, selectedImage, abortController, reqs, slot,
                   preview, fileType, readers, origin>>
    /\ UNCHANGED <<reportVars, extractorVars, followVars>>
    /\ UNCHANGED <<pickVars, progressVars, historyVars, citationVars>>

\* if (selectedImage) api.post(`/analyze-image`, ...) else api.post(`/query`, ...)
Endpoint(image) == IF image # None THEN "/analyze-image" ELSE "/query"

\* the guard of handleSend: if (!query.trim() || loading) return;
SendAccepted(q, l) == Trim(q) # <<>> /\ ~l

\* handleSend up to its await
HandleSend ==
    /\ Len(messages) < MaxTurns
    /\ IF SendAccepted(query, loading)
       THEN /\ loading' = TRUE
            /\ messages' = Append(messages, UserTurn(query))
            /\ origin' = Append(origin, From(Len(reqs) + 1, "user"))
            /\ query' = <<>>
            /\ abortController' = Some(Len(reqs) + 1)
            /\ reqs' = Append(reqs, [endpoint |-> Endpoint(selectedImage),
                                     query |-> query, status |-> "pending",
                                     report_id |-> None])
       ELSE UNCHANGED <<query, messages, loading, abortController, reqs, origin>>
    /\ lastCall' = "handleSend"
    /\ UNCHANGED <<opened, selectedImage, slot, preview, fileType, readers>>
    /\ UNCHANGED <<reportVars, extractorVars, followVars>>
    /\ ProgressEffect
    /\ UNCHANGED <<alive, pickVars, historyVars, citationVars>>


\* handleCancel
HandleCancel ==
    /\ IF abortController # None
       THEN /\ reqs' = [reqs EXCEPT ![abortController[1]].status =
                            IF @ = "pending" THEN "aborted" ELSE @]
            /\ abortController' = None
            /\ loading' = FALSE
            /\ messages' = Append(messages, CancelTurn)
            /\ origin' = Append(origin, From(abortController[1], "cancel"))
       ELSE UNCHANGED <<reqs, abortController, loading, messages, origin>>
    /\ lastCall' = "handleCancel"
    /\ UNCHANGED <<opened, query, selectedImage, slot, preview, fileType, readers>>
    /\ UNCHANGED <<reportVars, extractorVars, followVars>>
    /\ ProgressEffect
    /\ UNCHANGED <<alive, pickVars, historyVars, citationVars>>

\* (mutant) a finally block that releases the token but leaves the flag set
FinallyLeavesLoading ==
    /\ loading' = loading
    /\ abortController' = None

\* the finally block of handleSend
Finally ==
    /\ loading' = FALSE
    /\ abortController' = None

\* (mutant) the report window opened for every answer
OpensAlways(res) == res.intent # None

\* if (res.data.intent === "REPORT")
OpensReport(res) == res.intent = Some("REPORT")

\* POST /query resolves: the text branch of handleSend's try block, then finally
TextResponse(r, res, t) ==
    /\ r \in 1..Len(reqs)
    /\ reqs[r].status = "pending"
    /\ reqs[r].endpoint = "/query"
    /\ messages' = Append(messages, AnswerTurn(res))
    /\ origin' = Append(origin, From(r, "answer"))
    /\ IF OpensReport(res)
       THEN OpenReportWindow(reqs[r].query, res.answer, res.sources, res.engine,
                             res.chat_history, res.report_id, t)
       ELSE UNCHANGED <<slot, opened, reportVars>>
    /\ lastCall' = "none"
    /\ Finally
    /\ reqs' = [reqs EXCEPT ![r].status = "completed", ![r].report_id = res.report_id]
    /\ UNCHANGED <<query, selectedImage, preview, fileType, readers>>
    /\ UNCHANGED <<extractorVars, followVars>>
    /\ ProgressEffect
    /\ UNCHANGED <<alive, pickVars, historyVars, citationVars>>

\* POST /analyze-image resolves: the attachment branch of the try block, then finally
VisionResponse(r, data) ==
    /\ r \in 1..Len(reqs)
    /\ reqs[r].status = "pending"
    /\ reqs[r].endpoint = "/analyze-image"
    /\ messages' = Append(messages, VisionTurn(data))
    /\ origin' = Append(origin, From(r, "vision"))
    /\ selectedImage' = None
    /\ Finally
    /\ reqs' = [reqs EXCEPT ![r].status = "completed"]
    /\ lastCall' = "none"
    /\ UNCHANGED <<opened, query, slot, preview, fileType, readers>>
    /\ UNCHANGED <<reportVars, extractorVars, followVars>>
    /\ ProgressEffect
    /\ UNCHANGED <<alive, pickVars, historyVars, citationVars>>

\* (mutant) a catch block without the CanceledError test
CatchTurnsAlways(name, err) == <<ErrorTurn(err)>>

\* the catch block of handleSend: the turns it appends for an error of that name
CatchTurns(name, err) ==
    IF name = "CanceledError" THEN <<>> ELSE <<ErrorTurn(err)>>

\* (mutant) a catch block that rolls the optimistic user turn back
AfterCatchRollback(msgs, name, err) ==
    IF name = "CanceledError" \/ msgs = <<>> THEN msgs
    ELSE SubSeq(msgs, 1, Len(msgs) - 1) \o <<ErrorTurn(err)>>

\* the conversation after the catch block: setMessages(prev => [...prev, turn])
AfterCatch(msgs, name, err) == msgs \o CatchTurns(name, err)

\* api.post rejects with an error other than CanceledError: catch, then finally
ErrorArrives(r, err) ==
    /\ r \in 1..Len(reqs)
    /\ reqs[r].status = "pending"
    /\ messages' = AfterCatch(messages, "AxiosError", err)
    /\ origin' = origin \o [i \in 1..Len(CatchTurns("AxiosError", err)) |-> From(r, "error")]
    /\ Finally
    /\ reqs' = [reqs EXCEPT ![r].status = "failed"]
    /\ lastCall' = "none"
    /\ UNCHANGED <<opened, query, selectedImage, slot, preview, fileType, readers>>
    /\ UNCHANGED <<reportVars, extractorVars, followVars>>
    /\ ProgressEffect
    /\ UNCHANGED <<alive, pickVars, historyVars, citationVars>>

\* the rejection of an aborted api.post is delivered: catch returns, then finally
AbortSettles(r) ==
    /\ r \in 1..Len(reqs)
    /\ reqs[r].status = "aborted"
    /\ messages' = AfterCatch(messages, "CanceledError", CanceledError)
    /\ origin' = origin \o [i \in 1..Len(CatchTurns("CanceledError", CanceledError)) |-> From(r, "error")]
    /\ Finally
    /\ reqs' = [reqs EXCEPT ![r].status = "canceled"]
    /\ lastCall' = "none"
    /\ UNCHANGED <<opened, query, selectedImage, slot, preview, fileType, readers>>
    /\ UNCHANGED <<reportVars, extractorVars, followVars>>
    /\ ProgressEffect
    /\ UNCHANGED <<alive, pickVars, historyVars, citationVars>>

----------------------------------------------------------------------------
\* ImageUpload

\* file.type.startsWith("image/")
IsImage(f) == f.type # <<>> /\ f.type[1] = "image/"

\* String.prototype.toLowerCase on the tokens a file name ends with
ToLowerCase(tok) == IF tok = ".PDF" THEN ".pdf" ELSE tok

\* (mutant) a PDF test that looks at the content type only
IsPdfByType(f) == f.type = <<"application/pdf">>

\* file.type === "application/pdf" || file.name.toLowerCase().endsWith(".pdf")
IsPdf(f) ==
    \/ f.type = <<"application/pdf">>
    \/ (f.name # <<>> /\ ToLowerCase(f.name[Len(f.name)]) = ".pdf")

\* reader.result of readAsDataURL
DataUrl(f) == <<"data:">> \o f.name

PdfPlaceholder == <<"pdf-placeholder">>

\* handleFileChange; the picker is opened by the upload button, which is rendered
\* while there is no preview and is disabled while busy
HandleFileChange(f) ==
    /\ preview = None
    /\ ~loading
    /\ IF ~IsImage(f) /\ ~IsPdf(f)
       THEN /\ lastCall' = "alert"
            /\ UNCHANGED <<fileType, preview, selectedImage, readers, lastPick>>
       ELSE /\ fileType' = Some(IF IsPdf(f) THEN "pdf" ELSE "image")
            /\ IF IsImage(f)
               THEN /\ readers' = readers \cup {f}
                    /\ UNCHANGED <<preview, selectedImage>>
               ELSE /\ preview' = Some(PdfPlaceholder)
                    /\ selectedImage' = Some(f)
                    /\ UNCHANGED readers
            /\ lastPick' = Some(f)
            /\ lastCall' = "none"
    /\ UNCHANGED <<opened, query, messages, loading, abortController, reqs, slot, origin>>
    /\ UNCHANGED <<reportVars, extractorVars, followVars>>
    /\ UNCHANGED <<progressVars, historyVars, citationVars>>

\* reader.onloadend
ReaderLoadEnd(f) ==
    /\ f \in readers
    /\ readers' = readers \ {f}
    /\ preview' = Some(DataUrl(f))
    /\ selectedImage' = Some(f)
    /\ lastCall' = "none"
    /\ UNCHANGED <<opened, query, messages, loading, abortController, reqs, slot, fileType,
                   origin>>
    /\ UNCHANGED <<reportVars, extractorVars, followVars>>
    /\ UNCHANGED <<pickVars, progressVars, historyVars, citationVars>>

\* clearImage; its button is rendered over the preview and is disabled while busy
ClearImage ==
    /\ preview # None
    /\ ~loading
    /\ preview' = None
    /\ fileType' = None
    /\ selectedImage' = None
    /\ lastPick' = None
    /\ lastCall' = "none"
    /\ UNCHANGED <<opened, query, messages, loading, abortController, reqs, slot, readers,
                   origin>>
    /\ UNCHANGED <<reportVars, extractorVars, followVars>>
    /\ UNCHANGED <<progressVars, historyVars, citationVars>>

----------------------------------------------------------------------------
\* The other writers of the slot

\* the literal the button falls back to when the turn before has no text
DefaultQuery == <<"the query">>

\* the report button of the turn at idx, rendered for assistant turns whose
\* intent is REPORT: openReportWindow(messages[idx - 1]?.content || DefaultQuery,
\* msg.content, msg.sources || [], msg.engine)
ReopenReport(idx, t) ==
    /\ idx \in 1..Len(messages)
    /\ messages[idx].role = "assistant"
    /\ messages[idx].intent = Some("REPORT")
    /\ OpenReportWindow(IF idx > 1 /\ messages[idx - 1].content # <<>>
                           THEN messages[idx - 1].content ELSE DefaultQuery,
                        messages[idx].content,
                        IF messages[idx].sources = None THEN Some(<<>>)
                                                        ELSE messages[idx].sources,
                        messages[idx].engine, None, None, t)
    /\ lastCall' = "none"
    /\ UNCHANGED <<query, messages, loading, selectedImage, abortController, reqs,
                   preview, fileType, readers, origin>>
    /\ UNCHANGED <<extractorVars, followVars>>
    /\ UNCHANGED <<pickVars, progressVars, historyVars, citationVars>>

\* the reports GET /history answers with
StoredReports ==
    {[id |-> 7, query |-> <<"q">>, answer |-> <<"report text">>,
      sources |-> Some(<<"src">>), engine |-> Some("eng"), chat_history |-> None],
     [id |-> 0, query |-> <<"old", SP, "q">>, answer |-> <<"old text">>,
      sources |-> None, engine |-> None,
      chat_history |-> Some(<<[role |-> "user", content |-> <<"more">>]>>)]}

\* (mutant) the identifier computed by the rule of openReportWindow
HistoryPayloadFalsyId(report) ==
    [reportId |-> ReportIdOf(Some(report.id), 1234567), query |-> report.query,
     answer |-> report.answer, sources |-> report.sources, engine |-> report.engine,
     chat_history |-> IF report.chat_history = None THEN Some(<<>>)
                                                    ELSE report.chat_history]

\* the object both openReport handlers serialize
HistoryPayload(report) ==
    [reportId |-> NumToString(report.id), query |-> report.query,
     answer |-> report.answer, sources |-> report.sources, engine |-> report.engine,
     chat_history |-> IF report.chat_history = None THEN Some(<<>>)
                                                    ELSE report.chat_history]

\* HistorySidebar.openReport
HistoryOpenReport(report) ==
    /\ slot' = Some(Stringify(HistoryPayload(report)))
    /\ opened' = opened + 1
    /\ views' = Append(views, NewView)
    /\ handoffs' = Append(handoffs, HistoryPayload(report))
    /\ lastCall' = "openReport"
    /\ UNCHANGED <<query, messages, loading, selectedImage, abortController, reqs,
                   preview, fileType, readers, origin>>
    /\ UNCHANGED <<extractorVars, followVars>>
    /\ UNCHANGED <<pickVars, progressVars, historyVars, citationVars>>

\* MobileHistory.openReport
MobileOpenReport(report) ==
    /\ slot' = Some(Stringify(HistoryPayload(report)))
    /\ opened' = opened + 1
    /\ views' = Append(views, NewView)
    /\ handoffs' = Append(handoffs, HistoryPayload(report))
    /\ lastCall' = "openReport"
    /\ UNCHANGED <<query, messages, loading, selectedImage, abortController, reqs,
                   preview, fileType, readers, origin>>
    /\ UNCHANGED <<extractorVars, followVars>>
    /\ UNCHANGED <<pickVars, progressVars, historyVars, citationVars>>

----------------------------------------------------------------------------
\* ReportPage, the viewing surface

\* contents of the slot that no writer of this client produced: text that is not
\* JSON, the JSON text null, and an object without an answer
InvalidText == [kind |-> "invalid", members |-> <<>>]
NullText == [kind |-> "null", members |-> <<>>]
NoAnswerText == [kind |-> "object", members |-> [k \in {"reportId"} |-> <<"7">>]]
ForeignTexts == {InvalidText, NullText, NoAnswerText}

\* JSON.parse: throws on text that is not JSON, else the value (null is None)
Parse(t) ==
    [throws |-> t.kind = "invalid",
     value |-> IF t.kind = "object" THEN Some(t.members) ELSE None]

\* the two texts setError is called with
ParseErrorMessage == <<"error while loading the data">>
NotFoundMessage == <<"report not found">>

\* the user navigates to /report (or reloads it) without a handoff
VisitReportPage ==
    /\ views' = Append(views, NewView)
    /\ lastCall' = "none"
    /\ UNCHANGED <<query, messages, loading, selectedImage, abortController, reqs, slot,
                   preview, fileType, readers, origin, opened, handoffs>>
    /\ UNCHANGED <<extractorVars, followVars>>
    /\ UNCHANGED <<pickVars, progressVars, historyVars, citationVars>>

\* (mutant) a page that keeps the payload it was opened for instead of reading the slot
ReadSlotStale(v) ==
    IF v <= Len(handoffs) /\ opened = Len(views) THEN Some(Stringify(handoffs[v])) ELSE slot

\* sessionStorage.getItem("jonglaw_last_report") in the page of view v
ReadSlot(v) == slot

\* the effect of ReportPage, run once after the first render
ReportPageMount(v) ==
    /\ v \in 1..Len(views)
    /\ ~views[v].mounted
    /\ LET data == ReadSlot(v) IN
         views' = [views EXCEPT ![v] =
            IF data # None
            THEN IF Parse(data[1]).throws
                 THEN [mounted |-> TRUE, reportData |-> None,
                       error |-> Some(ParseErrorMessage)]
                 ELSE [mounted |-> TRUE, reportData |-> Parse(data[1]).value,
                       error |-> None]
            ELSE [mounted |-> TRUE, reportData |-> None, error |-> Some(NotFoundMessage)]]
    /\ lastCall' = "none"
    /\ UNCHANGED <<query, messages, loading, selectedImage, abortController, reqs, slot,
                   preview, fileType, readers, origin, opened, handoffs>>
    /\ UNCHANGED <<extractorVars, followVars>>
    /\ UNCHANGED <<pickVars, progressVars, historyVars, citationVars>>

\* reportData.<k>: undefined (None) when the object has no such property
Prop(o, k) == IF k \in DOMAIN o THEN o[k] ELSE None

\* what ReportPage renders: the error screen, the spinner, or LegalReportView, whose
\* parseReport(answer) calls answer.match and throws when answer is undefined
Renders(view) ==
    IF view.error # None THEN "error"
    ELSE IF view.reportData = None THEN "loading"
    ELSE IF "answer" \in DOMAIN view.reportData[1] THEN "report"
    ELSE "crash"

----------------------------------------------------------------------------
\* LegalReportView: cleanContent and parseReport.  A string is the sequence of its
\* characters; the two halves of a Korean section label are each one token, as the
\* patterns only ever allow white space between them.

NL == "<newline>"
BSL == "<backslash>"
Bullet == "<bullet>"

\* \s
IsSpace(c) == c \in {SP, NL}

\* \d
IsDigit(c) == c \in {DigitChar(d) : d \in 0..9}

Min(S) == CHOOSE x \in S : \A y \in S : x <= y

\* the first index from i on that holds no white space (Len(t) + 1 if there is none)
RECURSIVE SkipSpace(_, _)
SkipSpace(t, i) == IF i <= Len(t) /\ IsSpace(t[i]) THEN SkipSpace(t, i + 1) ELSE i

\* String.prototype.trim, which strips blanks and line breaks
RECURSIVE TrimSpace(_)
TrimSpace(t) ==
    IF t # <<>> /\ IsSpace(Head(t)) THEN TrimSpace(Tail(t))
    ELSE IF t # <<>> /\ IsSpace(t[Len(t)]) THEN TrimSpace(SubSeq(t, 1, Len(t) - 1))
    ELSE t

\* the two characters ** at i
BoldAt(t, i) == i >= 1 /\ i + 1 <= Len(t) /\ t[i] = "*" /\ t[i + 1] = "*"

\* .replace(/\*\*(.*?)\*\*/g, "$1"): a pair of ** on one line is removed, its inside kept
RECURSIVE RemoveBold(_, _)
RemoveBold(t, i) ==
    IF i > Len(t) THEN <<>>
    ELSE LET closing == {j \in (i + 2)..(Len(t) - 1) :
                            BoldAt(t, j) /\ \A k \in (i + 2)..(j - 1) : t[k] # NL}
         IN  IF BoldAt(t, i) /\ closing # {}
             THEN SubSeq(t, i + 2, Min(closing) - 1) \o RemoveBold(t, Min(closing) + 2)
             ELSE <<t[i]>> \o RemoveBold(t, i + 1)

\* the length of the match of #{1,6} at i
HashRun(t, i) ==
    CHOOSE k \in 1..6 :
        /\ \A m \in 0..(k - 1) : i + m <= Len(t) /\ t[i + m] = "#"
        /\ (k = 6 \/ i + k > Len(t) \/ t[i + k] # "#")

\* .replace(/#{1,6}\s?/g, "")
RECURSIVE RemoveHeaders(_, _)
RemoveHeaders(t, i) ==
    IF i > Len(t) THEN <<>>
    ELSE IF t[i] = "#"
         THEN LET j == i + HashRun(t, i)
              IN  RemoveHeaders(t, IF j <= Len(t) /\ IsSpace(t[j]) THEN j + 1 ELSE j)
         ELSE <<t[i]>> \o RemoveHeaders(t, i + 1)

\* .replace(/[-\*]\s?/g, "<bullet> ")
RECURSIVE ReplaceBullets(_, _)
ReplaceBullets(t, i) ==
    IF i > Len(t) THEN <<>>
    ELSE IF t[i] \in {"-", "*"}
         THEN <<Bullet, SP>> \o
              ReplaceBullets(t, IF i + 1 <= Len(t) /\ IsSpace(t[i + 1]) THEN i + 2 ELSE i + 1)
         ELSE <<t[i]>> \o ReplaceBullets(t, i + 1)

\* .replace(/\\n/g, "\n"): a backslash followed by the letter n becomes a line break
RECURSIVE Unescape(_, _)
Unescape(t, i) ==
    IF i > Len(t) THEN <<>>
    ELSE IF t[i] = BSL /\ i + 1 <= Len(t) /\ t[i + 1] = "n"
         THEN <<NL>> \o Unescape(t, i + 2)
         ELSE <<t[i]>> \o Unescape(t, i + 1)

\* (mutant) the same steps with the trim ahead of the unescape
CleanContentTrimFirst(t) ==
    IF t = <<>> THEN <<>>
    ELSE Unescape(TrimSpace(ReplaceBullets(RemoveHeaders(RemoveBold(t, 1), 1), 1)), 1)

\* cleanContent
CleanContent(t) ==
    IF t = <<>> THEN <<>>
    ELSE TrimSpace(Unescape(ReplaceBullets(RemoveHeaders(RemoveBold(t, 1), 1), 1), 1))

SectionNames == {"overview", "analysis", "conclusion", "action"}

\* the label of each pattern: sageon\s*gaeyo, beomnyul\s*bunseok, gyeollon,
\* hyanghu\s*jochi (romanized)
LabelTokens(sec) ==
    CASE sec = "overview" -> <<"sageon", "gaeyo">>
      [] sec = "analysis" -> <<"beomnyul", "bunseok">>
      [] sec = "conclusion" -> <<"gyeollon">>
      [] sec = "action" -> <<"hyanghu", "jochi">>

\* the label whose lookahead ends the capture of sec
NextLabel(sec) ==
    CASE sec = "overview" -> "analysis"
      [] sec = "analysis" -> "conclusion"
      [] sec = "conclusion" -> "action"

\* the index behind the label of sec if it matches at i, else 0
LabelEnd(t, i, sec) ==
    LET L == LabelTokens(sec) IN
    IF i < 1 \/ i > Len(t) \/ t[i] # L[1] THEN 0
    ELSE IF Len(L) = 1 THEN i + 1
    ELSE LET k == SkipSpace(t, i + 1)
         IN  IF k <= Len(t) /\ t[k] = L[2] THEN k + 1 ELSE 0

\* (?:\*\*)?label at p
DecoratedLabelAt(t, p, sec) ==
    \/ LabelEnd(t, p, sec) # 0
    \/ (BoldAt(t, p) /\ LabelEnd(t, p + 2, sec) # 0)

\* \d\. at p
OrdinalAt(t, p) == p >= 1 /\ p + 1 <= Len(t) /\ IsDigit(t[p]) /\ t[p + 1] = "."

\* (mutant) a lookahead that also accepts white space
LookaheadOrSpace(t, p, sec) ==
    \/ p > Len(t)
    \/ IsSpace(t[p])
    \/ DecoratedLabelAt(t, p, sec)
    \/ (OrdinalAt(t, p) /\ DecoratedLabelAt(t, SkipSpace(t, p + 2), sec))

\* (?=(?:\d\.\s*)?(?:\*\*)?label(?:\*\*)?|$) at p
Lookahead(t, p, sec) ==
    \/ p > Len(t)
    \/ DecoratedLabelAt(t, p, sec)
    \/ (OrdinalAt(t, p) /\ DecoratedLabelAt(t, SkipSpace(t, p + 2), sec))

\* (mutant) a match whose capture always runs to the end of the text
MatchToEnd(t, sec) ==
    LET starts == {i \in 1..Len(t) : LabelEnd(t, i, sec) # 0} IN
    IF starts = {} THEN None
    ELSE LET e == LabelEnd(t, Min(starts), sec)
         IN  Some([from |-> IF BoldAt(t, e) THEN e + 2 ELSE e, to |-> Len(t)])

\* text.match(pattern of sec): null (None), or the bounds of capture group 1.  The
\* match is the leftmost one, so it belongs to the first occurrence of the label; a
\* ** right behind the label is consumed; the lazy capture ends at the first
\* position where the lookahead holds, for the action pattern at the end of the text
Match(t, sec) ==
    LET starts == {i \in 1..Len(t) : LabelEnd(t, i, sec) # 0} IN
    IF starts = {} THEN None
    ELSE LET e == LabelEnd(t, Min(starts), sec)
             from == IF BoldAt(t, e) THEN e + 2 ELSE e
             stop == IF sec = "action" THEN Len(t) + 1
                     ELSE Min({p \in from..(Len(t) + 1) : Lookahead(t, p, NextLabel(sec))})
         IN  Some([from |-> from, to |-> stop - 1])

\* if (match) sections[sec] = cleanContent(match[1])
SectionOf(t, sec) ==
    IF Match(t, sec) = None THEN <<>>
    ELSE CleanContent(SubSeq(t, Match(t, sec)[1].from, Match(t, sec)[1].to))

\* (mutant) parseReport without its fallback
ParseReportNoFallback(t) == [sec \in SectionNames |-> SectionOf(t, sec)]

\* parseReport
ParseReport(t) ==
    LET sections == [sec \in SectionNames |-> SectionOf(t, sec)] IN
    IF sections.overview = <<>> /\ sections.analysis = <<>>
    THEN [sections EXCEPT !.overview = CleanContent(t)]
    ELSE sections

----------------------------------------------------------------------------
Next ==
    \/ \E t \in Queries : SetQuery(t)
    \/ HandleSend
    \/ HandleCancel
    \/ \E r \in 1..MaxTurns, res \in TextResponses, t \in Times : TextResponse(r, res, t)
    \/ \E r \in 1..MaxTurns, data \in VisionResponses : VisionResponse(r, data)
    \/ \E r \in 1..MaxTurns, err \in Errors : ErrorArrives(r, err)
    \/ \E r \in 1..MaxTurns : AbortSettles(r)
    \/ \E f \in Files : HandleFileChange(f)
    \/ \E f \in Files : ReaderLoadEnd(f)
    \/ ClearImage

Spec == Init /\ [][Next]_vars

----------------------------------------------------------------------------
\* The handoff store with all its writers and readers: the orchestrator's text
\* exchange, the reopen button, the two history lists and the viewing surface.
\* The slot starts absent or with a content this client did not write.

HandoffInit ==
    /\ query = <<>>
    /\ messages = <<>>
    /\ loading = FALSE
    /\ selectedImage = None
    /\ abortController = None
    /\ reqs = <<>>
    /\ slot \in {None} \cup {Some(t) : t \in ForeignTexts}
    /\ preview = None
    /\ fileType = None
    /\ readers = {}
    /\ origin = <<>>
    /\ opened = 0
    /\ lastCall = "none"
    /\ views = <<>>
    /\ handoffs = <<>>
    /\ text = <<>>
    /\ cleanings = <<>>
    /\ parses = <<>>
    /\ chat = <<>>
    /\ fuReportId = None
    /\ lastPick = None
    /\ progress = 0
    /\ loadingStage = ""
    /\ timer = FALSE
    /\ alive = TRUE
    /\ reports = <<>>
    /\ deletes = <<>>
    /\ server = {}
    /\ fetch = NoFetch
    /\ citation = [source |-> None]
    /\ isLaw = None

HandoffNext ==
    \/ \E t \in Queries : SetQuery(t)
    \/ Len(views) < MaxViews /\ HandleSend
    \/ \E r \in 1..MaxTurns, res \in TextResponses, t \in Times :
          Len(views) < MaxViews /\ TextResponse(r, res, t)
    \/ \E idx \in 1..MaxTurns, t \in Times : Len(views) < MaxViews /\ ReopenReport(idx, t)
    \/ \E report \in StoredReports : Len(views) < MaxViews /\ HistoryOpenReport(report)
    \/ \E report \in StoredReports : Len(views) < MaxViews /\ MobileOpenReport(report)
    \/ Len(views) < MaxViews /\ VisitReportPage
    \/ \E v \in 1..MaxViews : ReportPageMount(v)

HandoffSpec == HandoffInit /\ [][HandoffNext]_vars

----------------------------------------------------------------------------
\* The section extractor applied to answers, and the cleaning pass applied to strings

WordList == <<"a", "b", "c", "d", "e", "f">>

BlockKinds == SectionNames \cup {"none", "broken"}

\* the numeral the answer convention puts before each label
Ordinal(sec) ==
    CASE sec = "overview" -> "1"
      [] sec = "analysis" -> "2"
      [] sec = "conclusion" -> "3"
      [] sec = "action" -> "4"

\* the heading of a block: nothing, a label as plain text or numbered and emphasized,
\* or an overview label with a heading mark inside it (no pattern recognizes it)
Heading(kind, style) ==
    IF kind = "none" THEN <<>>
    ELSE IF kind = "broken" THEN <<"sageon", "#", "gaeyo", NL>>
    ELSE LET L == LabelTokens(kind)
             label == IF Len(L) = 1 THEN L ELSE <<L[1], SP, L[2]>>
         IN  IF style = "plain" THEN label \o <<NL>>
             ELSE <<Ordinal(kind), ".", SP, "*", "*">> \o label \o <<"*", "*", NL>>

\* the body of the i-th block: a word of its own, as plain text or as a list item
\* that ends in an escaped line break
Body(i, has, style) ==
    IF ~has THEN <<>>
    ELSE IF style = "plain" THEN <<WordList[i], NL>>
    ELSE <<"-", SP, WordList[i], BSL, "n">>

RECURSIVE Blocks(_, _, _, _)
Blocks(kinds, has, style, i) ==
    IF i > Len(kinds) THEN <<>>
    ELSE Heading(kinds[i], style) \o Body(i, has[i], style) \o Blocks(kinds, has, style, i + 1)

\* the answers: up to MaxBlocks blocks of different kinds in any order
Answers ==
    UNION {{Blocks(kinds, has, style, 1) :
                kinds \in {k \in [1..n -> BlockKinds] : \A i, j \in 1..n : k[i] = k[j] => i = j},
                has \in [1..n -> BOOLEAN], style \in {"plain", "numbered"}} :
           n \in 0..MaxBlocks}

ExtractorInit ==
    /\ text \in Answers
    /\ cleanings = <<>>
    /\ parses = <<>>
    /\ query = <<>>
    /\ messages = <<>>
    /\ loading = FALSE
    /\ selectedImage = None
    /\ abortController = None
    /\ reqs = <<>>
    /\ slot = None
    /\ preview = None
    /\ fileType = None
    /\ readers = {}
    /\ origin = <<>>
    /\ opened = 0
    /\ lastCall = "none"
    /\ views = <<>>
    /\ handoffs = <<>>
    /\ chat = <<>>
    /\ fuReportId = None
    /\ lastPick = None
    /\ progress = 0
    /\ loadingStage = ""
    /\ timer = FALSE
    /\ alive = TRUE
    /\ reports = <<>>
    /\ deletes = <<>>
    /\ server = {}
    /\ fetch = NoFetch
    /\ citation = [source |-> None]
    /\ isLaw = None

\* LegalReportView renders: const sections = parseReport(answer)
RenderSections ==
    /\ parses = <<>>
    /\ parses' = <<ParseReport(text)>>
    /\ UNCHANGED <<query, messages, loading, selectedImage, abortController, reqs, slot,
                   preview, fileType, readers, origin, opened, lastCall>>
    /\ UNCHANGED <<reportVars, text, cleanings, followVars>>
    /\ UNCHANGED <<pickVars, progressVars, historyVars, citationVars>>

\* the overview that was produced is given to parseReport again
Reparse ==
    /\ Len(parses) = 1
    /\ parses' = Append(parses, ParseReport(parses[1].overview))
    /\ UNCHANGED <<query, messages, loading, selectedImage, abortController, reqs, slot,
                   preview, fileType, readers, origin, opened, lastCall>>
    /\ UNCHANGED <<reportVars, text, cleanings, followVars>>
    /\ UNCHANGED <<pickVars, progressVars, historyVars, citationVars>>

ExtractorNext == RenderSections \/ Reparse

ExtractorSpec == ExtractorInit /\ [][ExtractorNext]_vars

\* the characters the steps of cleanContent look at
CleanAlphabet == {"*", "#", "-", SP, NL, BSL, "n"}

Strings == UNION {[1..n -> CleanAlphabet] : n \in 0..MaxLen}

CleanInit ==
    /\ text \in Strings
    /\ cleanings = <<>>
    /\ parses = <<>>
    /\ query = <<>>
    /\ messages = <<>>
    /\ loading = FALSE
    /\ selectedImage = None
    /\ abortController = None
    /\ reqs = <<>>
    /\ slot = None
    /\ preview = None
    /\ fileType = None
    /\ readers = {}
    /\ origin = <<>>
    /\ opened = 0
    /\ lastCall = "none"
    /\ views = <<>>
    /\ handoffs = <<>>
    /\ chat = <<>>
    /\ fuReportId = None
    /\ lastPick = None
    /\ progress = 0
    /\ loadingStage = ""
    /\ timer = FALSE
    /\ alive = TRUE
    /\ reports = <<>>
    /\ deletes = <<>>
    /\ server = {}
    /\ fetch = NoFetch
    /\ citation = [source |-> None]
    /\ isLaw = None

\* cleanContent applied to the text
CleanPass ==
    /\ cleanings = <<>>
    /\ cleanings' = <<CleanContent(text)>>
    /\ UNCHANGED <<query, messages, loading, selectedImage, abortController, reqs, slot,
                   preview, fileType, readers, origin, opened, lastCall>>
    /\ UNCHANGED <<reportVars, text, parses, followVars>>
    /\ UNCHANGED <<pickVars, progressVars, historyVars, citationVars>>

\* cleanContent applied to its own result
CleanAgain ==
    /\ Len(cleanings) = 1
    /\ cleanings' = Append(cleanings, CleanContent(cleanings[1]))
    /\ UNCHANGED <<query, messages, loading, selectedImage, abortController, reqs, slot,
                   preview, fileType, readers, origin, opened, lastCall>>
    /\ UNCHANGED <<reportVars, text, parses, followVars>>
    /\ UNCHANGED <<pickVars, progressVars, historyVars, citationVars>>

CleanNext == CleanPass \/ CleanAgain

CleanSpec == CleanInit /\ [][CleanNext]_vars

----------------------------------------------------------------------------
\* The follow-up channel: ReportChatSection and ReportChatSidebar, which have the same
\* state and the same handler.  Their reportId prop is the identifier of the report
\* on show: the string a writer of the slot put into the payload, or undefined (None)
\* when the payload had none.

Components == {"section", "sidebar"}

\* the identifiers the server issues
ServerIds == {id[1] : id \in ReportIds \ {None}} \cup {report.id : report \in StoredReports}

\* the values of the prop: every reportId a writer of the slot can produce, or none
ReportIdProps ==
    {Some(ReportIdOf(id, t)) : id \in ReportIds, t \in Times}
        \cup {Some(NumToString(n)) : n \in ServerIds} \cup {None}

\* what the user types into the follow-up input
FollowInputs == {<<>>, <<SP>>, <<"more", SP>>}

FollowAnswers == {<<"follow-up answer">>}

\* the literal apology of the catch block
FollowApology == <<"sorry, an error occurred, try again">>

\* isNaN(reportId): the argument is converted to a number first; undefined and a
\* string with a character that is no digit convert to NaN, the empty string to 0
IsNaN(id) == id = None \/ \E i \in 1..Len(id[1]) : ~IsDigit(id[1][i])

\* (mutant) the guard without the identifier test
FollowAcceptedAnyId(input, isLoading, id) == Trim(input) # <<>> /\ ~isLoading

\* if (!input.trim() || isLoading || isNaN(reportId)) return;
FollowAccepted(input, isLoading, id) ==
    Trim(input) # <<>> /\ ~isLoading /\ ~IsNaN(id)

\* history: the handler the step invoked
SubmitMark(c) == IF c = "section" THEN "section.handleSendMessage"
                                  ELSE "sidebar.handleSendMessage"

FollowInit ==
    /\ chat = [c \in Components |->
                 [messages |-> <<>>, input |-> <<>>, isLoading |-> FALSE, posts |-> <<>>]]
    /\ fuReportId \in ReportIdProps
    /\ lastPick = None
    /\ progress = 0
    /\ loadingStage = ""
    /\ timer = FALSE
    /\ alive = TRUE
    /\ reports = <<>>
    /\ deletes = <<>>
    /\ server = {}
    /\ fetch = NoFetch
    /\ citation = [source |-> None]
    /\ isLaw = None
    /\ text = <<>>
    /\ cleanings = <<>>
    /\ parses = <<>>
    /\ query = <<>>
    /\ messages = <<>>
    /\ loading = FALSE
    /\ selectedImage = None
    /\ abortController = None
    /\ reqs = <<>>
    /\ slot = None
    /\ preview = None
    /\ fileType = None
    /\ readers = {}
    /\ origin = <<>>
    /\ opened = 0
    /\ lastCall = "none"
    /\ views = <<>>
    /\ handoffs = <<>>

\* the onChange of the follow-up input
SetInput(c, t) ==
    /\ chat' = [chat EXCEPT ![c].input = t]
    /\ lastCall' = "none"
    /\ UNCHANGED <<query, messages, loading, selectedImage, abortController, reqs, slot,
                   preview, fileType, readers, origin, opened>>
    /\ UNCHANGED <<reportVars, extractorVars, fuReportId>>
    /\ UNCHANGED <<pickVars, progressVars, historyVars, citationVars>>

\* handleSendMessage up to its await; posts lists the calls to /chat/report/<id>
HandleSendMessage(c) ==
    /\ Len(chat[c].messages) < MaxFollowTurns
    /\ IF FollowAccepted(chat[c].input, chat[c].isLoading, fuReportId)
       THEN chat' = [chat EXCEPT
                ![c].input = <<>>,
                ![c].messages = Append(@, [role |-> "user", content |-> Trim(chat[c].input)]),
                ![c].isLoading = TRUE,
                ![c].posts = Append(@, [reportId |-> fuReportId,
                                        query |-> Trim(chat[c].input)])]
       ELSE chat' = chat
    /\ lastCall' = SubmitMark(c)
    /\ UNCHANGED <<query, messages, loading, selectedImage, abortController, reqs, slot,
                   preview, fileType, readers, origin, opened>>
    /\ UNCHANGED <<reportVars, extractorVars, fuReportId>>
    /\ UNCHANGED <<pickVars, progressVars, historyVars, citationVars>>

\* the post resolves: the try block after the await, then finally
FollowResponse(c, answer) ==
    /\ chat[c].isLoading
    /\ chat' = [chat EXCEPT
            ![c].messages = Append(@, [role |-> "assistant", content |-> answer]),
            ![c].isLoading = FALSE]
    /\ lastCall' = "none"
    /\ UNCHANGED <<query, messages, loading, selectedImage, abortController, reqs, slot,
                   preview, fileType, readers, origin, opened>>
    /\ UNCHANGED <<reportVars, extractorVars, fuReportId>>
    /\ UNCHANGED <<pickVars, progressVars, historyVars, citationVars>>

\* (mutant) a catch block without the finally
FollowErrorStaysLoading(c) ==
    /\ chat[c].isLoading
    /\ chat' = [chat EXCEPT
            ![c].messages = Append(@, [role |-> "assistant", content |-> FollowApology])]
    /\ lastCall' = "none"
    /\ UNCHANGED <<query, messages, loading, selectedImage, abortController, reqs, slot,
                   preview, fileType, readers, origin, opened>>
    /\ UNCHANGED <<reportVars, extractorVars, fuReportId>>
    /\ UNCHANGED <<pickVars, progressVars, historyVars, citationVars>>

\* the post rejects: catch, then finally
FollowError(c) ==
    /\ chat[c].isLoading
    /\ chat' = [chat EXCEPT
            ![c].messages = Append(@, [role |-> "assistant", content |-> FollowApology]),
            ![c].isLoading = FALSE]
    /\ lastCall' = "none"
    /\ UNCHANGED <<query, messages, loading, selectedImage, abortController, reqs, slot,
                   preview, fileType, readers, origin, opened>>
    /\ UNCHANGED <<reportVars, extractorVars, fuReportId>>
    /\ UNCHANGED <<pickVars, progressVars, historyVars, citationVars>>

FollowNext ==
    \/ \E c \in Components, t \in FollowInputs : SetInput(c, t)
    \/ \E c \in Components : HandleSendMessage(c)
    \/ \E c \in Components, answer \in FollowAnswers : FollowResponse(c, answer)
    \/ \E c \in Components : FollowError(c)

FollowSpec == FollowInit /\ [][FollowNext]_vars

----------------------------------------------------------------------------
\* The progress simulation of the AIPanel

\* Math.random() in hundredths: a small and a large draw
Randoms == {0, 98}

\* prev < 60 ? Math.random() * 5 : prev < 90 ? Math.random() * 2 : 0.1
Increment(prev, rnd) ==
    IF prev < 6000 THEN rnd * 5 ELSE IF prev < 9000 THEN rnd * 2 ELSE 10

\* the callback of setInterval: setProgress(prev => ...)
Tick(rnd) ==
    /\ timer
    /\ LET next == progress + Increment(progress, rnd)
       IN  /\ loadingStage' = StageOf(next)
           /\ progress' = IF progress < 9800 THEN next ELSE progress
    /\ lastCall' = "none"
    /\ UNCHANGED <<query, messages, loading, selectedImage, abortController, reqs, slot,
                   preview, fileType, readers, origin, opened, timer, alive>>
    /\ UNCHANGED <<reportVars, extractorVars, followVars>>
    /\ UNCHANGED <<pickVars, historyVars, citationVars>>

\* the AIPanel unmounts: the cleanup of the effect clears the interval
Unmount ==
    /\ alive
    /\ alive' = FALSE
    /\ timer' = FALSE
    /\ lastCall' = "none"
    /\ UNCHANGED <<query, messages, loading, selectedImage, abortController, reqs, slot,
                   preview, fileType, readers, origin, opened, progress, loadingStage>>
    /\ UNCHANGED <<reportVars, extractorVars, followVars>>
    /\ UNCHANGED <<pickVars, historyVars, citationVars>>

ProgressNext ==
    \/ \E t \in Queries : alive /\ SetQuery(t)
    \/ alive /\ HandleSend
    \/ alive /\ HandleCancel
    \/ \E r \in 1..MaxTurns, res \in TextResponses, t \in Times :
            alive /\ TextResponse(r, res, t)
    \/ \E r \in 1..MaxTurns, err \in Errors : alive /\ ErrorArrives(r, err)
    \/ \E r \in 1..MaxTurns : alive /\ AbortSettles(r)
    \/ \E rnd \in Randoms : Tick(rnd)
    \/ Unmount

ProgressSpec == Init /\ [][ProgressNext]_vars

----------------------------------------------------------------------------
\* The section extractor applied to answers of three parts: an overview, an analysis
\* and a conclusion block in this order and no action block; optionally unlabelled
\* text ahead of them, and a second analysis or conclusion block

Repeats == {"none", "analysis", "conclusion"}

ThreePart(style, pre, has, again) ==
    Body(6, pre, style)
        \o Heading("overview", style) \o Body(1, has[1], style)
        \o Heading("analysis", style) \o Body(2, has[2], style)
        \o (IF again = "analysis"
            THEN Heading("analysis", style) \o Body(4, TRUE, style) ELSE <<>>)
        \o Heading("conclusion", style) \o Body(3, has[3], style)
        \o (IF again = "conclusion"
            THEN Heading("conclusion", style) \o Body(5, TRUE, style) ELSE <<>>)

ThreePartAnswers ==
    {ThreePart(style, pre, has, again) :
        style \in {"plain", "numbered"}, pre \in BOOLEAN,
        has \in [1..3 -> BOOLEAN], again \in Repeats}

ThreePartInit ==
    /\ text \in ThreePartAnswers
    /\ cleanings = <<>>
    /\ parses = <<>>
    /\ citation = [source |-> None]
    /\ isLaw = None
    /\ chat = <<>>
    /\ fuReportId = None
    /\ lastPick = None
    /\ progress = 0
    /\ loadingStage = ""
    /\ timer = FALSE
    /\ alive = TRUE
    /\ reports = <<>>
    /\ deletes = <<>>
    /\ server = {}
    /\ fetch = NoFetch
    /\ query = <<>>
    /\ messages = <<>>
    /\ loading = FALSE
    /\ selectedImage = None
    /\ abortController = None
    /\ reqs = <<>>
    /\ slot = None
    /\ preview = None
    /\ fileType = None
    /\ readers = {}
    /\ origin = <<>>
    /\ opened = 0
    /\ lastCall = "none"
    /\ views = <<>>
    /\ handoffs = <<>>

ThreePartSpec == ThreePartInit /\ [][ExtractorNext]_vars

----------------------------------------------------------------------------
\* The classification of a citation in LegalReportView

\* the characters of a source string (the Hangul syllables are written in Latin
\* letters): the syllables of the four suffixes, and three that are in none
Beop == "beop"
Ryeong == "ryeong"
Gyu == "gyu"
Chik == "chik"
Ryul == "ryul"
Syllables == {Beop, Ryeong, Gyu, Chik, Ryul, "min", "pan", "gyeol"}

RECURSIVE StringsUpTo(_, _)
StringsUpTo(alphabet, n) ==
    IF n = 0 THEN {<<>>}
    ELSE LET shorter == StringsUpTo(alphabet, n - 1)
         IN  shorter \cup {Append(t, ch) : t \in shorter, ch \in alphabet}

\* the elements of sources: source is a string, or is missing
Citations ==
    {[source |-> Some(t)] : t \in StringsUpTo(Syllables, MaxSourceLen)}
        \cup {[source |-> None]}

\* (mutant) a suffix test that compares the last character only
EndsWithLastChar(t, suffix) == t # <<>> /\ Last(t) = Last(suffix)

\* String.prototype.endsWith
EndsWith(t, suffix) ==
    Len(t) >= Len(suffix) /\ SubSeq(t, Len(t) - Len(suffix) + 1, Len(t)) = suffix

\* src.source && (src.source.endsWith(...) || ...), as the truth value the render
\* tests: an undefined and an empty source are falsy
IsLaw(src) ==
    /\ src.source # None
    /\ src.source[1] # <<>>
    /\ \/ EndsWith(src.source[1], <<Beop>>)
       \/ EndsWith(src.source[1], <<Ryeong>>)
       \/ EndsWith(src.source[1], <<Gyu, Chik>>)
       \/ EndsWith(src.source[1], <<Ryul>>)

CitationInit ==
    /\ citation \in Citations
    /\ isLaw = None
    /\ chat = <<>>
    /\ fuReportId = None
    /\ lastPick = None
    /\ progress = 0
    /\ loadingStage = ""
    /\ timer = FALSE
    /\ alive = TRUE
    /\ reports = <<>>
    /\ deletes = <<>>
    /\ server = {}
    /\ fetch = NoFetch
    /\ text = <<>>
    /\ cleanings = <<>>
    /\ parses = <<>>
    /\ query = <<>>
    /\ messages = <<>>
    /\ loading = FALSE
    /\ selectedImage = None
    /\ abortController = None
    /\ reqs = <<>>
    /\ slot = None
    /\ preview = None
    /\ fileType = None
    /\ readers = {}
    /\ origin = <<>>
    /\ opened = 0
    /\ lastCall = "none"
    /\ views = <<>>
    /\ handoffs = <<>>

\* the callback of sources.map for the element citation
ClassifyCitation ==
    /\ isLaw = None
    /\ isLaw' = Some(IsLaw(citation))
    /\ UNCHANGED <<query, messages, loading, selectedImage, abortController, reqs, slot,
                   preview, fileType, readers, origin, opened, lastCall, citation>>
    /\ UNCHANGED <<reportVars, extractorVars, followVars>>
    /\ UNCHANGED <<pickVars, progressVars, historyVars>>

CitationNext == ClassifyCitation

CitationSpec == CitationInit /\ [][CitationNext]_vars

----------------------------------------------------------------------------
\* The attachment picker on its own, over more kinds of file

JpgFile == [name |-> <<"photo", ".jpg">>, type |-> <<"image/", "jpeg">>]
GifFile == [name |-> <<"stamp", ".gif">>, type |-> <<"image/", "gif">>]
\* a PDF the browser gives no content type for, with an upper-case suffix
UpperPdfFile == [name |-> <<"LEASE", ".PDF">>, type |-> <<>>]
\* a PDF by content type whose name has another suffix
TypedPdfFile == [name |-> <<"lease", ".dat">>, type |-> <<"application/pdf">>]
BinFile == [name |-> <<"data", ".bin">>, type |-> <<"application/octet-stream">>]

PickerFiles == Files \cup {JpgFile, GifFile, UpperPdfFile, TypedPdfFile, BinFile}

PickerNext ==
    \/ \E f \in PickerFiles : HandleFileChange(f)
    \/ \E f \in PickerFiles : ReaderLoadEnd(f)
    \/ ClearImage

PickerSpec == Init /\ [][PickerNext]_vars

----------------------------------------------------------------------------
\* Fairness: the transport delivers the outcome of every call it was given (a
\* response or an error while the call is pending, the rejection once aborted)

Settles(r) ==
    \/ \E res \in TextResponses, t \in Times : TextResponse(r, res, t)
    \/ \E data \in VisionResponses : VisionResponse(r, data)
    \/ \E err \in Errors : ErrorArrives(r, err)
    \/ AbortSettles(r)

FairSpec == Spec /\ \A r \in 1..MaxTurns : WF_vars(Settles(r))

----------------------------------------------------------------------------
\* Properties

Issued == 1..Len(reqs)

\* the calls that are outstanding and have not been aborted
Outstanding == {r \in Issued : reqs[r].status = "pending"}

IsPrefix(s, t) == Len(s) <= Len(t) /\ SubSeq(t, 1, Len(s)) = s

\* the step is the completion, the failure, the abort of call r
Completes(r) == r \in Issued /\ reqs[r].status = "pending" /\ reqs'[r].status = "completed"
Fails(r) == r \in Issued /\ reqs[r].status = "pending" /\ reqs'[r].status = "failed"
Aborts(r) == r \in Issued /\ reqs[r].status = "pending" /\ reqs'[r].status = "aborted"

\* the turns of the conversation that call r's response or error produced
DerivedFrom(r) ==
    {i \in 1..Len(origin) : origin[i].req = r /\ origin[i].kind \in {"answer", "vision", "error"}}

NoticesOf(r) == {i \in 1..Len(origin) : origin[i].req = r /\ origin[i].kind = "cancel"}

\* C1: at most one call that has not been aborted is outstanding, and while one is
\* outstanding the in-flight flag is set and the held cancel token is that call's
C1_SingleFlight ==
    /\ Cardinality(Outstanding) <= 1
    /\ \A r \in Outstanding : loading /\ abortController = Some(r)

\* C2: while a call is outstanding (not completed, failed or canceled) a submission
\* attempt appends no turn, issues no call and allocates no token
C2_SecondSubmissionRejected ==
    [][(Outstanding # {} /\ lastCall' = "handleSend")
         => (messages' = messages /\ reqs' = reqs /\ abortController' = abortController)]_vars

\* C3: a cancel in Submitting aborts the call of the held token, clears the flag and
\* the token and appends exactly the cancellation notice; a canceled call never
\* contributes an answer, findings or error turn and has exactly one notice; a cancel
\* with nothing in flight changes nothing
C3_CancelStep ==
    (lastCall' = "handleCancel")
      => IF loading
         THEN /\ abortController # None
              /\ Aborts(abortController[1])
              /\ \A r \in Issued \ {abortController[1]} : reqs'[r] = reqs[r]
              /\ ~loading'
              /\ abortController' = None
              /\ messages' = Append(messages, CancelTurn)
         ELSE UNCHANGED <<query, messages, loading, selectedImage, abortController,
                          reqs, slot, preview, fileType, readers, opened>>

C3_CanceledCallsSilent ==
    \A r \in Issued :
        reqs[r].status \in {"aborted", "canceled"}
            => DerivedFrom(r) = {} /\ Cardinality(NoticesOf(r)) = 1

C3_Cancel == [][C3_CancelStep]_vars /\ []C3_CanceledCallsSilent

\* a call was canceled, its rejection was delivered later, and it left only its notice
C3_Witness ==
    \E r \in Issued :
        /\ reqs[r].status = "canceled"
        /\ \E i \in 1..Len(messages) : messages[i] = CancelTurn /\ origin[i].req = r
        /\ Len(messages) > 2

\* C4: in Idle a submission starts a request (flag set, one user turn, one call) if
\* and only if the text is non-blank or an attachment is staged
C4_SubmissionStarts ==
    [][(lastCall' = "handleSend" /\ ~loading /\ Outstanding = {})
         => ((Trim(query) # <<>> \/ selectedImage # None)
               <=> (/\ loading'
                    /\ messages' = Append(messages, UserTurn(query))
                    /\ Len(reqs') = Len(reqs) + 1))]_vars

\* C5: every step leaves the conversation as a prefix of the new one; a submission
\* appends its user turn at once, and that turn stays whatever the outcome
C5_UserTurnsKept ==
    \A r \in Issued :
        \E i \in 1..Len(messages) :
            /\ origin[i] = From(r, "user")
            /\ messages[i] = UserTurn(reqs[r].query)

C5_AppendOnly ==
    /\ [][IsPrefix(messages, messages')]_vars
    /\ [][Len(reqs') > Len(reqs) => messages' = Append(messages, UserTurn(query))]_vars
    /\ [](Len(origin) = Len(messages) /\ C5_UserTurnsKept)

\* a failed call and a canceled call, both user turns still in the conversation
C5_Witness ==
    /\ \E r \in Issued : reqs[r].status = "failed"
    /\ \E r \in Issued : reqs[r].status = "canceled"
    /\ Cardinality({i \in 1..Len(messages) : messages[i].role = "user"}) >= 2

\* C6: a failure appends exactly one assistant turn with the error message, clears
\* the flag and the token, and the next submission of a non-blank text is accepted
C6_FailureStep ==
    \A r \in 1..MaxTurns :
        Fails(r) =>
            /\ Len(messages') = Len(messages) + 1
            /\ IsPrefix(messages, messages')
            /\ LET turn == messages'[Len(messages')]
               IN  /\ turn.role = "assistant"
                   /\ turn.intent = None
                   /\ Len(turn.content) = 2
                   /\ turn.content[1] = ErrorPrefix[1]
                   /\ turn.content[2] \in {"detail", "status 500", GenericError[1]}
            /\ ~loading'
            /\ abortController' = None
            /\ \A q \in Queries : Trim(q) # <<>> => SendAccepted(q, loading')

C6_Failure == [][C6_FailureStep]_vars

\* a call failed, its error turn is the last turn, and a later submission was accepted
C6_Witness ==
    /\ Len(reqs) >= 2
    /\ reqs[1].status = "failed"
    /\ reqs[2].status = "pending"
    /\ Len(messages) = 3
    /\ origin[2] = From(1, "error")
    /\ origin[3] = From(2, "user")

\* C7: under fairness every issued call ends completed, failed or canceled, an ended
\* call keeps its outcome, and the in-flight flag is cleared again
Ended(r) == r \in Issued /\ reqs[r].status \in {"completed", "failed", "canceled"}

C7_OutcomeKept ==
    \A r \in 1..MaxTurns : Ended(r) => reqs'[r].status = reqs[r].status

C7_AbortedStaysCanceled ==
    \A r \in 1..MaxTurns :
        (r \in Issued /\ reqs[r].status = "aborted")
            => reqs'[r].status \in {"aborted", "canceled"}

C7_Settles ==
    /\ \A r \in 1..MaxTurns :
          (r \in Issued) ~> Ended(r)
    /\ loading ~> ~loading
    /\ [][C7_OutcomeKept /\ C7_AbortedStaysCanceled]_vars

\* three calls have ended, one each way, and the flag is cleared
C7_Witness ==
    /\ ~loading
    /\ abortController = None
    /\ {reqs[r].status : r \in Issued} = {"completed", "failed", "canceled"}

\* C8: the completion of a text query appends exactly the server's answer turn; the
\* slot is written and a window opened exactly when the intent is REPORT; a vision
\* completion leaves the slot alone and opens nothing
C8_CompletionStep ==
    \A r \in 1..MaxTurns :
        Completes(r) =>
            /\ Len(messages') = Len(messages) + 1
            /\ IsPrefix(messages, messages')
            /\ LET turn == messages'[Len(messages')]
               IN  IF reqs[r].endpoint = "/query"
                   THEN /\ \E res \in TextResponses : turn = AnswerTurn(res)
                        /\ turn.role = "assistant"
                        /\ IF turn.intent = Some("REPORT")
                           THEN /\ opened' = opened + 1
                                /\ slot' # None
                                /\ slot'[1].members.answer = turn.content
                                /\ slot'[1].members.query = reqs[r].query
                                /\ slot'[1].members.sources = turn.sources
                                /\ slot'[1].members.engine = turn.engine
                           ELSE /\ opened' = opened
                                /\ slot' = slot
                   ELSE /\ turn.intent = Some("VISION_ANALYSIS")
                        /\ opened' = opened
                        /\ slot' = slot

C8_Completion == [][C8_CompletionStep]_vars

\* a REPORT completion and a GENERAL or vision completion have happened; one window
\* was opened, for the report
C8_Witness ==
    /\ \E i \in 1..Len(messages) : messages[i].intent = Some("REPORT")
    /\ \E i \in 1..Len(messages) :
          messages[i].intent \in {Some("GENERAL"), Some("VISION_ANALYSIS")}
    /\ opened = 1
    /\ slot # None
    /\ slot[1].members.answer = <<"report text">>

\* the client-generated identifier: "JL-" and the last six digits of a time
IsFallbackId(id) ==
    /\ Len(id) >= 2
    /\ id[1] = "JL-"
    /\ Len(id) <= 7
    /\ \A i \in 2..Len(id) : id[i] \in {DigitChar(d) : d \in 0..9}

\* C9: a REPORT completion hands off the string form of the server's report_id when
\* the response carries one, and a client-generated identifier only when it carries none
C9_ReportIdStep ==
    \A r \in 1..MaxTurns :
        (Completes(r) /\ opened' = opened + 1) =>
            LET id == reqs'[r].report_id
            IN  IF id # None
                THEN slot'[1].members.reportId = NumToString(id[1])
                ELSE IsFallbackId(slot'[1].members.reportId)

C9_ReportId == [][C9_ReportIdStep]_vars

\* C10: a vision completion appends exactly one VISION_ANALYSIS turn with the findings
\* and leaves nothing staged: staged file, preview and file-type marker are cleared
C10_VisionStep ==
    \A r \in 1..MaxTurns :
        (Completes(r) /\ reqs[r].endpoint = "/analyze-image") =>
            /\ \E data \in VisionResponses : messages' = Append(messages, VisionTurn(data))
            /\ selectedImage' = None
            /\ preview' = None
            /\ fileType' = None

C10_VisionClears == [][C10_VisionStep]_vars

----------------------------------------------------------------------------
\* Handoff store and viewing surface

\* the effect of the page of view v runs in this step
Mounts(v) == v \in 1..Len(views) /\ ~views[v].mounted /\ views'[v].mounted

PayloadKeys == {"reportId", "query", "answer", "sources", "engine", "chat_history"}

\* C11: when the page of the window created last runs its read after a handoff, the
\* payload it obtains has the reportId, query and answer of the object that was written
C11_ReadStep ==
    \A v \in 1..MaxViews :
        (Mounts(v) /\ v = Len(views) /\ handoffs # <<>>) =>
            /\ views'[v].error = None
            /\ views'[v].reportData # None
            /\ Prop(views'[v].reportData[1], "reportId") = Last(handoffs).reportId
            /\ Prop(views'[v].reportData[1], "query") = Last(handoffs).query
            /\ Prop(views'[v].reportData[1], "answer") = Last(handoffs).answer

C11_RoundTrip == [][C11_ReadStep]_vars

\* the orchestrator handed a report off after a completed call and the page of its
\* window has read it back
C11_Witness ==
    /\ Len(handoffs) = 1
    /\ \E r \in Issued : reqs[r].status = "completed"
    /\ Len(views) = 1
    /\ views[1].mounted
    /\ views[1].reportData # None
    /\ Prop(views[1].reportData[1], "answer") = <<"report text">>
    /\ Prop(views[1].reportData[1], "query") = <<"q", SP>>

\* C12: the slot holds exactly the serialized payload of the most recent handoff
\* (or, before any handoff, what it held at the start), whoever wrote it; and every
\* page, also one whose window was created for an earlier handoff, reads that payload
C12_SlotIsLastWrite ==
    IF handoffs = <<>>
    THEN slot \in {None} \cup {Some(t) : t \in ForeignTexts}
    ELSE slot = Some(Stringify(Last(handoffs)))

C12_ReadsNewest ==
    \A v \in 1..MaxViews :
        (Mounts(v) /\ handoffs # <<>>) =>
            /\ views'[v].reportData = Some(Stringify(Last(handoffs)).members)
            /\ slot' = slot

Usable(s) == s # None /\ s[1].kind = "object" /\ PayloadKeys \subseteq DOMAIN s[1].members

\* C13: a page that reads a slot which holds no usable payload ends in the error state
C13_ReadStep ==
    \A v \in 1..MaxViews :
        (Mounts(v) /\ ~Usable(slot)) => Renders(views'[v]) = "error"

C13_Unusable == [][C13_ReadStep]_vars

\* C14: a reopen from a history list writes the slot with a payload of the six keys of
\* a fresh payload, its reportId the string form of the stored id, and creates one
\* window; the page that reads it shows the stored report's reportId, query and answer
C14_ReopenStep ==
    (lastCall' = "openReport" /\ handoffs' # handoffs) =>
        \E report \in StoredReports :
            /\ handoffs' = Append(handoffs, Last(handoffs'))
            /\ DOMAIN Last(handoffs') = PayloadKeys
            /\ Last(handoffs').reportId = NumToString(report.id)
            /\ Last(handoffs').query = report.query
            /\ Last(handoffs').answer = report.answer
            /\ slot' = Some(Stringify(Last(handoffs')))
            /\ opened' = opened + 1
            /\ views' = Append(views, NewView)
            /\ messages' = messages

C14_ReadStep ==
    \A v \in 1..MaxViews, report \in StoredReports :
        (Mounts(v) /\ lastCall = "openReport" /\ Last(handoffs).query = report.query) =>
            /\ Renders(views'[v]) = "report"
            /\ Prop(views'[v].reportData[1], "reportId") = NumToString(report.id)
            /\ Prop(views'[v].reportData[1], "query") = report.query
            /\ Prop(views'[v].reportData[1], "answer") = report.answer

C14_HistoryReopen == [][C14_ReopenStep /\ C14_ReadStep]_vars

\* the stored report with id 0 was reopened and its page shows it under the id "0"
C14_Witness ==
    /\ Len(views) = 1
    /\ views[1].mounted
    /\ Renders(views[1]) = "report"
    /\ Prop(views[1].reportData[1], "reportId") = <<"0">>
    /\ Prop(views[1].reportData[1], "answer") = <<"old text">>
    /\ lastCall = "none"
    /\ opened = 1

----------------------------------------------------------------------------
\* Section extractor

Range(t) == {t[i] : i \in 1..Len(t)}

\* the places where the label of sec is recognized
Occurrences(t, sec) == {i \in 1..Len(t) : LabelEnd(t, i, sec) # 0}

NoLabels(t) == \A sec \in SectionNames : Occurrences(t, sec) = {}

\* all four labels occur, in the order overview, analysis, conclusion, action
AllInOrder(t) ==
    \E i1 \in Occurrences(t, "overview"), i2 \in Occurrences(t, "analysis"),
       i3 \in Occurrences(t, "conclusion"), i4 \in Occurrences(t, "action") :
        i1 < i2 /\ i2 < i3 /\ i3 < i4

\* content: a character that is neither label, numeral, markup nor white space
IsWord(c) == c \in Range(WordList)

\* every content character from the first label on lies inside some capture
Covered(t) ==
    \A p \in 1..Len(t) :
        (IsWord(t[p]) /\ \E sec \in SectionNames : \E i \in Occurrences(t, sec) : i < p) =>
            \E sec \in SectionNames :
                /\ Match(t, sec) # None
                /\ Match(t, sec)[1].from <= p
                /\ p <= Match(t, sec)[1].to

AllFilled(sections) == \A sec \in SectionNames : sections[sec] # <<>>

\* C15 as stated: an answer with the four labels in order gives four non-empty
\* sections whose captures cover the text from the first label to the end
C15_FourLabels ==
    (parses # <<>> /\ AllInOrder(text)) => (AllFilled(parses[1]) /\ Covered(text))

\* each label occurs once and content follows it before the next label (for the
\* action label, before the end)
ContentAfterEach(t) ==
    \A sec \in SectionNames :
        /\ Cardinality(Occurrences(t, sec)) = 1
        /\ \E p \in 1..Len(t) :
              /\ IsWord(t[p])
              /\ Min(Occurrences(t, sec)) < p
              /\ (sec # "action" => p < Min(Occurrences(t, NextLabel(sec))))

\* C15 (amended): an answer in which the four labels occur once each, in order, with
\* content after each of them, gives four non-empty sections whose captures cover
\* the text from the first label to the end
C15_FourLabelsWithContent ==
    (parses # <<>> /\ AllInOrder(text) /\ ContentAfterEach(text))
        => (AllFilled(parses[1]) /\ Covered(text))

\* a numbered, emphasized answer with the four sections was split into four parts
C15_Witness ==
    /\ parses # <<>>
    /\ AllInOrder(text)
    /\ ContentAfterEach(text)
    /\ "*" \in Range(text)
    /\ AllFilled(parses[1])
    /\ WordList[1] \in Range(parses[1].overview)
    /\ WordList[4] \in Range(parses[1].action)

\* C16: every content character of the answer appears in some returned section
C16_NothingLost ==
    parses # <<>> =>
        \A p \in 1..Len(text) :
            IsWord(text[p]) => \E sec \in SectionNames : text[p] \in Range(parses[1][sec])

\* C17: when neither the overview nor the analysis match gives text, the result is
\* the cleaned input as overview and three empty sections
C17_Fallback ==
    (parses # <<>> /\ SectionOf(text, "overview") = <<>>
                   /\ SectionOf(text, "analysis") = <<>>)
        => parses[1] = [sec \in SectionNames |->
                            IF sec = "overview" THEN CleanContent(text) ELSE <<>>]

C18_NoLabelResult ==
    (parses # <<>> /\ NoLabels(text))
        => parses[1] = [sec \in SectionNames |->
                            IF sec = "overview" THEN CleanContent(text) ELSE <<>>]

\* C18 as stated: without labels the overview is the cleaned input, the rest is
\* empty, and parsing that overview again gives the same overview
C18_ZeroLabels ==
    /\ C18_NoLabelResult
    /\ (Len(parses) = 2 /\ NoLabels(text)) => parses[2].overview = parses[1].overview

\* C18 (amended): ... and parsing that overview again gives the same overview when
\* the overview itself contains no recognized label
C18_ZeroLabelsStable ==
    /\ C18_NoLabelResult
    /\ (Len(parses) = 2 /\ NoLabels(text) /\ NoLabels(parses[1].overview))
           => parses[2].overview = parses[1].overview

\* an unlabelled list item was cleaned into the overview and parsing it again changed
\* nothing
C18_Witness ==
    /\ Len(parses) = 2
    /\ NoLabels(text)
    /\ NoLabels(parses[1].overview)
    /\ Bullet \in Range(parses[1].overview)
    /\ parses[1].overview # text
    /\ parses[2].overview = parses[1].overview

\* C19: a second cleaning pass returns what the first one returned
C19_Idempotent == Len(cleanings) = 2 => cleanings[2] = cleanings[1]

\* a string with a list mark and an escaped line break inside was cleaned twice
C19_Witness ==
    /\ Len(cleanings) = 2
    /\ Bullet \in Range(cleanings[1])
    /\ NL \in Range(cleanings[1])
    /\ BSL \in Range(text)

----------------------------------------------------------------------------
\* Follow-up channel

\* the prop is the string form of an identifier the server issued
ServerResolved(id) == id \in {Some(NumToString(n)) : n \in ServerIds}

\* C20: a follow-up submission is a no-op (no turn appended, no request issued, the
\* loading flag and everything else of the component as before) when the identifier
\* is not a server-resolved one, when the text is empty or blank, and while the
\* component is loading
C20_Step ==
    \A c \in Components :
        (lastCall' = SubmitMark(c) /\
            (~ServerResolved(fuReportId) \/ Trim(chat[c].input) = <<>> \/ chat[c].isLoading))
        => chat' = chat

C20_GuardedNoOp == [][C20_Step]_vars

\* a question was submitted under the client-generated identifier and nothing happened
C20_Witness ==
    \E c \in Components :
        /\ lastCall = SubmitMark(c)
        /\ fuReportId # None
        /\ IsFallbackId(fuReportId[1])
        /\ Trim(chat[c].input) # <<>>
        /\ chat[c].messages = <<>>
        /\ chat[c].posts = <<>>
        /\ ~chat[c].isLoading

\* C21: an accepted follow-up appends exactly one user turn (the trimmed text), issues
\* one request and sets loading; the settlement of the request appends exactly one
\* assistant turn (the answer, or the apology on an error) and clears loading; nothing
\* else appends; so the turns alternate user, assistant and loading holds exactly while
\* a user turn is unanswered
C21_Step ==
    \A c \in Components :
        LET m == chat[c].messages
            n == chat'[c].messages
        IN  /\ (lastCall' = SubmitMark(c) /\ ServerResolved(fuReportId)
                    /\ Trim(chat[c].input) # <<>> /\ ~chat[c].isLoading)
                => /\ n = Append(m, [role |-> "user", content |-> Trim(chat[c].input)])
                   /\ chat'[c].isLoading
                   /\ Len(chat'[c].posts) = Len(chat[c].posts) + 1
            /\ (chat[c].isLoading /\ chat'[c] # chat[c] /\ chat'[c].input = chat[c].input)
                => /\ \E a \in FollowAnswers \cup {FollowApology} :
                        n = Append(m, [role |-> "assistant", content |-> a])
                   /\ ~chat'[c].isLoading
                   /\ chat'[c].posts = chat[c].posts
            /\ (n # m /\ ~chat[c].isLoading) => lastCall' = SubmitMark(c)
            /\ (chat[c].isLoading # chat'[c].isLoading) => Len(n) = Len(m) + 1

C21_Alternates ==
    \A c \in Components :
        /\ \A i \in 1..Len(chat[c].messages) :
              chat[c].messages[i].role = IF i % 2 = 1 THEN "user" ELSE "assistant"
        /\ chat[c].isLoading <=> (Len(chat[c].messages) % 2 = 1)

C21_OneTurnEach == [][C21_Step]_vars /\ []C21_Alternates

\* two rounds are over: one answered by the server, one by the apology
C21_Witness ==
    \E c \in Components :
        /\ Len(chat[c].messages) = 4
        /\ ~chat[c].isLoading
        /\ chat[c].messages[2].content \in FollowAnswers
        /\ chat[c].messages[4].content = FollowApology

----------------------------------------------------------------------------
\* Attachment picker

\* what the preview and the marker of a staged file f are
Describes(f) ==
    IF f.type # <<>> /\ f.type[1] = "image/"
    THEN fileType = Some("image") /\ preview = Some(DataUrl(f))
    ELSE fileType = Some("pdf") /\ preview = Some(PdfPlaceholder)

\* C22: the staged attachment is the most recently accepted selection, and the preview
\* and the file-type marker describe that file (there is one staged file at most: the
\* orchestrator holds it in one variable)
C22_StagedIsLastPick ==
    selectedImage # None => (lastPick = selectedImage /\ Describes(selectedImage[1]))

\* the files of PickerFiles that are neither an image nor a PDF
NeitherImageNorPdf == {TxtFile, BinFile}

\* C23: a selection of a file that is neither an image nor a PDF raises the validation
\* alert and changes nothing; a selection of any other file is accepted: it raises no
\* alert, sets the marker and either stages the file or starts reading it
C23_Step ==
    \A f \in PickerFiles :
        HandleFileChange(f) =>
            IF f \in NeitherImageNorPdf
            THEN /\ lastCall' = "alert"
                 /\ UNCHANGED <<preview, fileType, selectedImage, messages, readers,
                                lastPick, query, loading, reqs, slot>>
            ELSE /\ lastCall' # "alert"
                 /\ fileType' # None
                 /\ lastPick' = Some(f)
                 /\ (selectedImage' = Some(f) \/ f \in readers')

C23_Validation == [][C23_Step]_vars

\* a file was rejected while an image accepted before it is still being read: the
\* marker and the accepted selection are as the accepted pick left them
C23_Witness ==
    /\ lastCall = "alert"
    /\ fileType = Some("image")
    /\ readers # {}
    /\ lastPick # None

----------------------------------------------------------------------------
\* Progress simulation

\* the position of a stage label in the order of the bands (0: no label)
BandIndex(label) ==
    IF label = StageAnalysis THEN 1
    ELSE IF label = StageSearch THEN 2
    ELSE IF label = StageGeneration THEN 3
    ELSE IF label = StageReview THEN 4
    ELSE 0

\* the band a progress value lies in: below 30, below 60, below 85, from 85
BandOf(p) == IF p < 3000 THEN 1 ELSE IF p < 6000 THEN 2 ELSE IF p < 8500 THEN 3 ELSE 4

\* C24: while a request is outstanding the progress is below 100 and the stage label
\* is the label of the band of the progress; a timer tick never lowers the progress
\* and never moves the label back to an earlier band
C24_InBand ==
    Outstanding # {} => (progress < 10000 /\ BandIndex(loadingStage) = BandOf(progress))

C24_TickStep ==
    \A rnd \in Randoms :
        Tick(rnd) => (progress' >= progress
                      /\ BandIndex(loadingStage') >= BandIndex(loadingStage))

C24_Progress == []C24_InBand /\ [][C24_TickStep]_vars

\* Idle, as the claim has it: no request in flight, or the panel unmounted
Idle == ~loading \/ ~alive

\* C26 (as stated): the flag is set exactly when a token is held, and in Idle, after an
\* unmount included, progress is 0, the label is empty and no interval is running
C26_IdleIsReset ==
    /\ loading <=> abortController # None
    /\ Idle => (progress = 0 /\ loadingStage = "" /\ ~timer)

\* C26 (amended): the flag is set exactly when a token is held, and only while a call
\* is outstanding; while the flag is clear progress is 0, the label is empty and no
\* interval is running; after an unmount no interval is running either; a tick happens
\* only while the flag is set and the panel is mounted
C26_Inv ==
    /\ loading <=> abortController # None
    /\ loading => Outstanding # {}
    /\ ~loading => (progress = 0 /\ loadingStage = "" /\ ~timer)
    /\ ~alive => ~timer
    /\ timer <=> (loading /\ alive)

C26_TickStep ==
    \A rnd \in Randoms : Tick(rnd) => (loading /\ alive)

C26_Lifecycle == []C26_Inv /\ [][C26_TickStep]_vars

\* the panel was unmounted while a later request was in flight and its progress had
\* advanced, after an earlier request had completed and one had been canceled
C26_Witness ==
    /\ ~alive
    /\ loading
    /\ progress > 3000
    /\ \E r \in Issued : reqs[r].status = "completed"

----------------------------------------------------------------------------
\* Citation classification

\* the source string is not empty and its last characters are those of a suffix
HasStatuteSuffix(src) ==
    /\ src.source # None
    /\ LET t == src.source[1]
           n == Len(t)
       IN  /\ n >= 1
           /\ \/ t[n] \in {Beop, Ryeong, Ryul}
              \/ (n >= 2 /\ t[n - 1] = Gyu /\ t[n] = Chik)

\* C25: a citation is classified as a statute exactly when its source is a non-empty
\* string that ends with one of the four suffixes; a source ending in beop is a
\* statute, a source ending in pan-gyeol is not
C25_SuffixRule ==
    isLaw # None =>
        /\ isLaw[1] <=> HasStatuteSuffix(citation)
        /\ (citation = [source |-> Some(<<"min", Beop>>)] => isLaw[1])
        /\ (citation = [source |-> Some(<<"min", "pan", "gyeol">>)] => ~isLaw[1])

\* a source that ends with the two-character suffix was classified as a statute
C25_Witness ==
    /\ isLaw = Some(TRUE)
    /\ citation = [source |-> Some(<<"min", Gyu, Chik>>)]

----------------------------------------------------------------------------
\* Section captures

\* the index behind the first label of sec and the emphasis mark that closes it
AfterLabel(t, sec) ==
    LET e == LabelEnd(t, Min(Occurrences(t, sec)), sec)
    IN  IF e + 1 <= Len(t) /\ t[e] = "*" /\ t[e + 1] = "*" THEN e + 2 ELSE e

RECURSIVE BackOverSpace(_, _)
BackOverSpace(t, j) == IF j >= 1 /\ IsSpace(t[j]) THEN BackOverSpace(t, j - 1) ELSE j

\* where the label that is recognized at i begins when its emphasis mark and its
\* ordinal are counted to it; nothing before lo belongs to it
LabelStart(t, i, lo) ==
    LET b == IF i - 2 >= lo /\ t[i - 2] = "*" /\ t[i - 1] = "*" THEN i - 2 ELSE i
        k == BackOverSpace(t, b - 1)
    IN  IF k - 1 >= lo /\ t[k] = "." /\ IsDigit(t[k - 1]) THEN k - 1 ELSE b

\* the text from just after the first label of sec to the first later occurrence of
\* the label expected next, or to the end of the text when there is none
Between(t, sec) ==
    LET from == AfterLabel(t, sec)
        later == IF sec = "action" THEN {}
                 ELSE {i \in Occurrences(t, NextLabel(sec)) : i >= from}
        stop == IF later = {} THEN Len(t) + 1
                ELSE Min({LabelStart(t, i, from) : i \in later})
    IN  SubSeq(t, from, stop - 1)

ThreeLabelsNoAction(t) ==
    /\ Occurrences(t, "action") = {}
    /\ \E i1 \in Occurrences(t, "overview"), i2 \in Occurrences(t, "analysis"),
         i3 \in Occurrences(t, "conclusion") : i1 < i2 /\ i2 < i3

BetweenLabels(t) ==
    [overview |-> CleanContent(Between(t, "overview")),
     analysis |-> CleanContent(Between(t, "analysis")),
     conclusion |-> CleanContent(Between(t, "conclusion")),
     action |-> <<>>]

----------------------------------------------------------------------------
\* Reopening a report

\* the payload of the automatic handoff of the REPORT turn at idx, made at time t0
AutomaticPayload(idx, t0) ==
    LET r == origin[idx].req
    IN  Payload(reqs[r].query, messages[idx].content, messages[idx].sources,
                messages[idx].engine, None, reqs[r].report_id, t0)

\* C28: the report button of a REPORT turn hands off the reportId, query, answer,
\* sources and chat history of the automatic handoff made when the turn was produced
\* (so a report id issued by the server is preserved)
C28_Step ==
    \A idx \in 1..MaxTurns, t \in Times :
        ReopenReport(idx, t) =>
            \E t0 \in Times : Last(handoffs') = AutomaticPayload(idx, t0)

C28_ReopenIsSameHandoff == [][C28_Step]_vars

\* the assistant turns the report button is rendered for
ReportTurns == {i \in 1..Len(messages) :
                    messages[i].role = "assistant" /\ messages[i].intent = Some("REPORT")}

\* C29: every REPORT turn is directly preceded by the user turn of the request that
\* produced it, whose text is the query of that request
C29_QueryBeforeReport ==
    \A i \in ReportTurns :
        /\ i > 1
        /\ messages[i - 1].role = "user"
        /\ origin[i - 1] = From(origin[i].req, "user")
        /\ messages[i - 1].content = reqs[origin[i].req].query

----------------------------------------------------------------------------
\* HistorySidebar: the list of stored reports and its delete button

\* the reports the server stores for the user, in the order GET /history lists them
ServerOrder == <<7, 0, 3>>

\* res.data of GET /history when the server stores the reports of ids
ServerList(ids) == SelectSeq(ServerOrder, LAMBDA id : id \in ids)

\* reports.filter(r => r.id !== id)
WithoutId(list, id) == SelectSeq(list, LAMBDA r : r # id)

\* the sidebar of a signed-in user after its mount effect called fetchHistory:
\* reports is useState([]), GET /history is on its way
HistoryInit ==
    /\ reports = <<>>
    /\ deletes = <<>>
    /\ server = Range(ServerOrder)
    /\ fetch = [status |-> "pending", data |-> <<>>]
    /\ query = <<>>
    /\ messages = <<>>
    /\ loading = FALSE
    /\ selectedImage = None
    /\ abortController = None
    /\ reqs = <<>>
    /\ slot = None
    /\ preview = None
    /\ fileType = None
    /\ readers = {}
    /\ origin = <<>>
    /\ opened = 0
    /\ lastCall = "none"
    /\ views = <<>>
    /\ handoffs = <<>>
    /\ text = <<>>
    /\ cleanings = <<>>
    /\ parses = <<>>
    /\ chat = <<>>
    /\ fuReportId = None
    /\ lastPick = None
    /\ progress = 0
    /\ loadingStage = ""
    /\ timer = FALSE
    /\ alive = TRUE
    /\ citation = [source |-> None]
    /\ isLaw = None

otherVars == <<query, messages, loading, selectedImage, abortController, reqs, slot,
               preview, fileType, readers, origin, opened, reportVars, extractorVars,
               followVars, pickVars, progressVars, citationVars>>

\* the server answers GET /history with the reports it stores at that moment
FetchServed ==
    /\ fetch.status = "pending"
    /\ fetch' = [status |-> "served", data |-> ServerList(server)]
    /\ lastCall' = "none"
    /\ UNCHANGED <<reports, deletes, server, otherVars>>

\* fetchHistory after its await: setReports(res.data)
FetchArrives ==
    /\ fetch.status = "served"
    /\ reports' = fetch.data
    /\ fetch' = [fetch EXCEPT !.status = "done"]
    /\ lastCall' = "none"
    /\ UNCHANGED <<deletes, server, otherVars>>

\* fetchHistory's catch: console.error, the list stays as it is
FetchFails ==
    /\ fetch.status = "pending"
    /\ fetch' = [fetch EXCEPT !.status = "failed"]
    /\ lastCall' = "none"
    /\ UNCHANGED <<reports, deletes, server, otherVars>>

\* deleteReport up to its await, on the button of a displayed report: confirm(...),
\* then api.delete; the closure holds the reports value of the render it was made in
DeleteReport(id, confirmed) ==
    /\ id \in Range(reports)
    /\ Len(deletes) < MaxDeletes
    /\ IF confirmed
       THEN deletes' = Append(deletes, [id |-> id, reports |-> reports,
                                        status |-> "pending"])
       ELSE UNCHANGED deletes
    /\ lastCall' = IF confirmed THEN "confirm" ELSE "declined"
    /\ UNCHANGED <<reports, server, fetch, otherVars>>

\* the server carries out DELETE /history/{id}
DeleteServed(d) ==
    /\ d \in 1..Len(deletes)
    /\ deletes[d].status = "pending"
    /\ server' = server \ {deletes[d].id}
    /\ deletes' = [deletes EXCEPT ![d].status = "served"]
    /\ lastCall' = "none"
    /\ UNCHANGED <<reports, fetch, otherVars>>

\* deleteReport after its await: setReports(reports.filter(r => r.id !== id))
DeleteResolves(d) ==
    /\ d \in 1..Len(deletes)
    /\ deletes[d].status = "served"
    /\ reports' = WithoutId(deletes[d].reports, deletes[d].id)
    /\ deletes' = [deletes EXCEPT ![d].status = "done"]
    /\ lastCall' = "none"
    /\ UNCHANGED <<server, fetch, otherVars>>

\* api.delete rejects: the catch block of deleteReport, alert(...)
DeleteRejects(d) ==
    /\ d \in 1..Len(deletes)
    /\ deletes[d].status = "pending"
    /\ deletes' = [deletes EXCEPT ![d].status = "failed"]
    /\ lastCall' = "alert"
    /\ UNCHANGED <<reports, server, fetch, otherVars>>

HistoryNext ==
    \/ FetchServed
    \/ FetchArrives
    \/ FetchFails
    \/ \E id \in Range(ServerOrder), confirmed \in BOOLEAN : DeleteReport(id, confirmed)
    \/ \E d \in 1..MaxDeletes : DeleteServed(d)
    \/ \E d \in 1..MaxDeletes : DeleteResolves(d)
    \/ \E d \in 1..MaxDeletes : DeleteRejects(d)

HistorySpec == HistoryInit /\ [][HistoryNext]_vars

\* the deletes that have succeeded
Succeeded == {d \in 1..Len(deletes) : deletes[d].status = "done"}

C30_Gone == \A d \in Succeeded : deletes[d].id \notin Range(reports)

C30_Step ==
    /\ \A id \in Range(ServerOrder) :
          DeleteReport(id, FALSE) => UNCHANGED <<reports, deletes, server>>
    /\ \A d \in 1..MaxDeletes : DeleteRejects(d) => reports' = reports

\* C30: once the delete of a report has succeeded the report is not in the displayed
\* list and does not come back, whatever other deletes are in flight; a declined
\* confirmation issues no request, and a failed delete leaves the list unchanged
C30_Deletion == []C30_Gone /\ [][C30_Step]_vars

====
